---- MODULE Spec2Model ----
(***************************************************************************)
(* vlc-print: border scan (row_bounds, auto_crop), brightness remap        *)
(* (auto_brighten), source selection (most_recent_file) and the pipeline   *)
(* that chains them (go), modelled from src/main.rs.                       *)
(***************************************************************************)
EXTENDS Integers, Sequences, FiniteSets, TLC

\* ------------------------------------------------------------------ bounds
\* Images of at most this many pixels (width * height) are enumerated.
MaxPixels == 12
\* The directory model stops creating files once the clock reaches this.
MaxClock == 4

\* ------------------------------------------------------- program constants
\* `p.to_luma()[0] < 16`
Threshold == 16
\* u8::MAX
U8Max == 255
VARIABLES
    \* ---- go(): image pipeline
    pc,           \* position of go(): "decoded", "cropped", "panicked", "brightened"
    img,          \* the decoded rgb8 ImageBuffer
    luma,         \* args.luma
    crop_bounds,  \* auto_crop's locals left_crop, top_crop, right_crop, bot_crop
    crop_args,    \* the (x, y, width, height) auto_crop hands to imageops::crop
    cropped_img,  \* go's cropped_img
    \* ---- auto_brighten's closure on one channel
    channel,      \* *channel before scale
    offset,       \* the luma argument
    scaled,       \* *channel after scale, -1 before it ran
    \* ---- snapshot directory and go()'s file handling
    dir,          \* the directory: a set of [name, created, is_file]
    clock,        \* creation time the next created file gets
    entries,      \* what fs::read_dir yielded to the last run
    orig_path,    \* the file the last run selected
    written,      \* every file name a run has saved so far
    run_result    \* how the last run ended

imgVars == <<pc, img, luma, crop_bounds, crop_args, cropped_img>>
chanVars == <<channel, offset, scaled>>
dirVars == <<dir, clock, entries, orig_path, written, run_result>>
vars == <<imgVars, chanVars, dirVars>>

\* ------------------------------------------------------------ small helpers
Min(a, b) == IF a < b THEN a ELSE b

RECURSIVE Pow2(_)
Pow2(n) == IF n = 0 THEN 1 ELSE 2 * Pow2(n - 1)

\* one 16-bit limb of a u32
Limb == Pow2(16)
\* f32 carries a 24-bit significand m: 2^23 <= m < 2^24
F32Lo == Pow2(23)
F32Hi == Pow2(24)
\* split point used to multiply a 24-bit significand without leaving 32 bits
Half12 == Pow2(12)

\* ------------------------------------------------------------------- u32
\* A u32 is kept as two 16-bit limbs <<hi, lo>>.
U32(n) == <<n \div Limb, n % Limb>>

U32Less(a, b) == a[1] < b[1] \/ (a[1] = b[1] /\ a[2] < b[2])

\* a - b on u32 operands below 2^16, as the release build computes it
\* (wrapping): 2^32 + (a - b) when a < b.
WrappingSub(a, b) ==
    IF a >= b THEN U32(a - b) ELSE <<Limb - 1, Limb + a - b>>

\* ------------------------------------------------------------------ pixels
\* Grey rgb8 pixels on both sides of the threshold.
Dark == <<15, 15, 15>>
Lit == <<16, 16, 16>>
Palette == {Dark, Lit}

\* Rgb -> Luma as the image crate's to_luma computes it for u8 channels.
ToLuma(p) == (2126 * p[1] + 7152 * p[2] + 722 * p[3]) \div 10000

IsBlack(p) == ToLuma(p) < Threshold

\* ------------------------------------------------------------- row_bounds
\* `while let Some(want) = row.next().map(|p| p.to_luma()[0] < 16) { n += 1 }`
\* from iterator position pos (pixels consumed so far): the pixel that ends the
\* loop is consumed by next() and is not counted.
RECURSIVE TakeWhile(_, _, _, _)
TakeWhile(row, pos, count, want) ==
    IF pos >= Len(row) THEN [pos |-> pos, count |-> count]
    ELSE IF IsBlack(row[pos + 1]) = want
         THEN TakeWhile(row, pos + 1, count + 1, want)
         ELSE [pos |-> pos + 1, count |-> count]

\* `while row.len() != 0 { ... }`: alternating non-black / black segments.
RECURSIVE RowSegments(_, _, _, _)
RowSegments(row, pos, cursor, right_bound) ==
    IF Len(row) - pos = 0 THEN right_bound
    ELSE LET seg == TakeWhile(row, pos, cursor, FALSE)
             gap == TakeWhile(row, seg.pos, seg.count, TRUE)
         IN  RowSegments(row, gap.pos, gap.count, seg.count)

\* A plausible slip: counting the pixel that ended the first loop too.
row_bounds_counts_stop(row) ==
    LET first == TakeWhile(row, 0, 0, TRUE)
    IN  <<first.pos, RowSegments(row, first.pos, first.pos, 0)>>

row_bounds(row) ==
    LET first == TakeWhile(row, 0, 0, TRUE)
        left_bound == first.count
    IN  <<left_bound, RowSegments(row, first.pos, left_bound, 0)>>

\* --------------------------------------------------------------- auto_crop
\* `while let Some(true) = rows.next().map(|r| row_bounds(r).0 == img_width)`
RECURSIVE BlackRows(_, _, _, _)
BlackRows(rows, img_width, pos, count) ==
    IF pos >= Len(rows) THEN [pos |-> pos, count |-> count]
    ELSE IF row_bounds(rows[pos + 1])[1] = img_width
         THEN BlackRows(rows, img_width, pos + 1, count + 1)
         ELSE [pos |-> pos + 1, count |-> count]

\* `while let Some(row) = rows.next() { ...; if row_left_crop == img_width { break } }`
RECURSIVE ContentRows(_, _, _)
ContentRows(rows, img_width, st) ==
    IF st.pos >= Len(rows) THEN st
    ELSE LET rb == row_bounds(rows[st.pos + 1])
             nxt == [pos |-> st.pos + 1,
                     cursor |-> st.cursor + 1,
                     right_crop |-> IF rb[2] > st.right_crop
                                    THEN rb[2] ELSE st.right_crop,
                     left_crop |-> IF rb[1] < st.left_crop
                                   THEN rb[1] ELSE st.left_crop,
                     bot_crop |-> st.bot_crop]
         IN  IF rb[1] = img_width THEN nxt
             ELSE ContentRows(rows, img_width, nxt)

\* `while rows.len() != 0 { ... }`
RECURSIVE ColSegments(_, _, _)
ColSegments(rows, img_width, st) ==
    IF Len(rows) - st.pos = 0 THEN st
    ELSE LET seg == ContentRows(rows, img_width, st)
             gap == BlackRows(rows, img_width, seg.pos, seg.cursor)
         IN  ColSegments(rows, img_width,
                         [seg EXCEPT !.bot_crop = seg.cursor,
                                     !.pos = gap.pos,
                                     !.cursor = gap.count])

\* The four locals of auto_crop when it reaches the call of imageops::crop.
CropBounds(image) ==
    LET img_width == image.width
        top == BlackRows(image.rows, img_width, 0, 0)
        fin == ColSegments(image.rows, img_width,
                           [pos |-> top.pos, cursor |-> top.count,
                            right_crop |-> 0, left_crop |-> img_width,
                            bot_crop |-> 0])
    IN  [left_crop |-> fin.left_crop, top_crop |-> top.count,
         right_crop |-> fin.right_crop, bot_crop |-> fin.bot_crop]

\* `right_crop - left_crop` or `bot_crop - top_crop` overflows u32.
SubOverflows(b) == b.right_crop < b.left_crop \/ b.bot_crop < b.top_crop

\* The arguments of imageops::crop when the subtractions wrap.
CropArgs(b) ==
    [x |-> b.left_crop, y |-> b.top_crop,
     width |-> WrappingSub(b.right_crop, b.left_crop),
     height |-> WrappingSub(b.bot_crop, b.top_crop)]

\* imageops::crop clamps the rectangle to the image; to_image copies it.
ClampDim(want, room) == IF U32Less(U32(room), want) THEN room ELSE want[2]

ToImage(image, a) ==
    LET x == Min(a.x, image.width)
        y == Min(a.y, image.height)
        h == ClampDim(a.height, image.height - y)
        w == ClampDim(a.width, image.width - x)
    IN  [width |-> w, height |-> h,
         rows |-> [r \in 1..h |-> [c \in 1..w |-> image.rows[y + r][x + c]]]]

\* ----------------------------------------------------------- auto_brighten
\* An f32 is [m, e], standing for m * 2^(-e) with F32Lo <= m < F32Hi, or zero.
F32Zero == [m |-> 0, e |-> 0]

\* Round-to-nearest-even of a significand whose dropped part compares to one
\* half as `cmp` (-1 below, 0 tie, 1 above); a carry out of 24 bits renormalises.
RoundNearestEven(m, e, cmp) ==
    LET up == cmp > 0 \/ (cmp = 0 /\ m % 2 = 1)
        m1 == IF up THEN m + 1 ELSE m
    IN  IF m1 = F32Hi THEN [m |-> F32Lo, e |-> e - 1] ELSE [m |-> m1, e |-> e]

\* Quotient bits by long division: q holds the bits so far, r the remainder.
RECURSIVE DivBits(_, _, _, _)
DivBits(q, r, d, left) ==
    IF left = 0 THEN [q |-> q, r |-> r]
    ELSE IF 2 * r >= d THEN DivBits(2 * q + 1, 2 * r - d, d, left - 1)
         ELSE DivBits(2 * q, 2 * r, d, left - 1)

\* Smallest k with n * 2^k >= d.
RECURSIVE Normalise(_, _, _)
Normalise(n, d, k) == IF n >= d THEN k ELSE Normalise(2 * n, d, k + 1)

\* n as f32 / d as f32 for integers 0 <= n <= d <= 255 (IEEE division).
F32Div(n, d) ==
    IF n = 0 THEN F32Zero
    ELSE LET k == Normalise(n, d, 0)
             b == DivBits(1, n * Pow2(k) - d, d, 23)
             cmp == IF 2 * b.r > d THEN 1 ELSE IF 2 * b.r = d THEN 0 ELSE -1
         IN  RoundNearestEven(b.q, 23 + k, cmp)

RECURSIVE BitLen(_)
BitLen(n) == IF n = 0 THEN 0 ELSE 1 + BitLen(n \div 2)

\* x as f32 * f for an integer 0 <= x <= 255 (IEEE multiplication). The exact
\* product x * f.m is kept as hi * 2^12 + lo, then rounded to 24 bits.
F32Mul(x, f) ==
    IF x = 0 \/ f.m = 0 THEN F32Zero
    ELSE LET low == x * (f.m % Half12)
             hi == x * (f.m \div Half12) + low \div Half12
             lo == low % Half12
             s == BitLen(hi) + 12 - 24
             kept == hi * Pow2(12 - s) + lo \div Pow2(s)
             rem == lo % Pow2(s)
             cmp == IF s = 0 THEN -1
                    ELSE IF rem > Pow2(s - 1) THEN 1
                    ELSE IF rem = Pow2(s - 1) THEN 0 ELSE -1
         IN  RoundNearestEven(kept, f.e - s, cmp)

\* f as u8: truncation toward zero, saturating.
F32ToU8(f) ==
    IF f.m = 0 \/ f.e > 24 THEN 0
    ELSE IF f.e < 0 THEN U8Max
    ELSE Min(f.m \div Pow2(f.e), U8Max)

\* A plausible slip: dividing the offset itself instead of its complement.
FactorOfOffset(l) == F32Div(l, U8Max)

\* `let factor = (u8::MAX - luma) as f32 / u8::MAX as f32;`
Factor(l) == F32Div(U8Max - l, U8Max)

\* A plausible slip: scaling the channel instead of its distance to white.
scale_channel_itself(c, factor) == U8Max - F32ToU8(F32Mul(c, factor))

\* `*channel = u8::MAX - ((u8::MAX - *channel) as f32 * factor) as u8;`
scale(c, factor) == U8Max - F32ToU8(F32Mul(U8Max - c, factor))

auto_brighten(image, l) ==
    LET factor == Factor(l)
    IN  [image EXCEPT !.rows =
            [r \in 1..image.height |->
                [c \in 1..image.width |->
                    [k \in 1..3 |-> scale(image.rows[r][c][k], factor)]]]]

\* -------------------------------------------------- go(): the image pipeline
NoImage == [width |-> 0, height |-> 0, rows |-> <<>>]
NoBounds == [left_crop |-> 0, top_crop |-> 0, right_crop |-> 0, bot_crop |-> 0]
NoRect == [x |-> 0, y |-> 0, width |-> <<0, 0>>, height |-> <<0, 0>>]

\* Every image of w columns and h rows over the palette.
ImagesOf(w, h) ==
    {[width |-> w, height |-> h, rows |-> rs] :
        rs \in [1..h -> [1..w -> Palette]]}

Shapes == {wh \in (1..MaxPixels) \X (1..MaxPixels) : wh[1] * wh[2] <= MaxPixels}

Images == UNION {ImagesOf(wh[1], wh[2]) : wh \in Shapes}

\* Values of the --luma argument that are tried.
LumaArgs == {0, 128, U8Max}

ChanIdle == channel = 0 /\ offset = 0 /\ scaled = -1
DirIdle ==
    /\ dir = {} /\ clock = 0 /\ entries = {}
    /\ orig_path = <<>> /\ written = {} /\ run_result = "none"
ImgIdle ==
    /\ pc = "idle" /\ img = NoImage /\ luma = 0
    /\ crop_bounds = NoBounds /\ crop_args = NoRect /\ cropped_img = NoImage

\* go() after `.decode()...into_rgb8()`, with args parsed.
Init ==
    /\ pc = "decoded"
    /\ img \in Images
    /\ luma \in LumaArgs
    /\ crop_bounds = NoBounds
    /\ crop_args = NoRect
    /\ cropped_img = NoImage
    /\ ChanIdle
    /\ DirIdle

\* `auto_crop(&mut img).to_image()` when no subtraction overflows, or when it
\* overflows in a build without overflow checks (release): the difference wraps.
AutoCrop ==
    /\ pc = "decoded"
    /\ LET b == CropBounds(img)
       IN  /\ crop_bounds' = b
           /\ crop_args' = CropArgs(b)
           /\ cropped_img' = ToImage(img, CropArgs(b))
    /\ pc' = "cropped"
    /\ UNCHANGED <<img, luma, chanVars, dirVars>>

\* The same call in a build with overflow checks (debug): the subtraction
\* panics, imageops::crop is never called and go() never returns.
AutoCropPanic ==
    /\ pc = "decoded"
    /\ SubOverflows(CropBounds(img))
    /\ crop_bounds' = CropBounds(img)
    /\ pc' = "panicked"
    /\ UNCHANGED <<img, luma, crop_args, cropped_img, chanVars, dirVars>>

\* `if args.luma != 0 { auto_brighten(&mut cropped_img, args.luma); }`
Brighten ==
    /\ pc = "cropped"
    /\ luma # 0
    /\ cropped_img' = auto_brighten(cropped_img, luma)
    /\ pc' = "brightened"
    /\ UNCHANGED <<img, luma, crop_bounds, crop_args, chanVars, dirVars>>

SkipBrighten ==
    /\ pc = "cropped"
    /\ luma = 0
    /\ pc' = "brightened"
    /\ UNCHANGED <<img, luma, crop_bounds, crop_args, cropped_img, chanVars, dirVars>>

Next == AutoCrop \/ AutoCropPanic \/ Brighten \/ SkipBrighten

Spec == Init /\ [][Next]_vars

\* ------------------------------------------- auto_brighten on one channel
InitScale ==
    /\ channel \in 0..U8Max
    /\ offset \in 0..U8Max
    /\ scaled = -1
    /\ ImgIdle
    /\ DirIdle

\* The closure `scale` applied to one channel of one pixel.
Scale ==
    /\ scaled = -1
    /\ scaled' = scale(channel, Factor(offset))
    /\ UNCHANGED <<channel, offset, imgVars, dirVars>>

NextScale == Scale

SpecScale == InitScale /\ [][NextScale]_vars

\* ------------------------------------- file names (std::path::Path on names)
\* A file name is a sequence of one-character strings.
VlcSnap == <<"v", "l", "c", "s", "n", "a", "p", "-">>
VlcPrintOut == <<"v", "l", "c", "-", "p", "r", "i", "n", "t", "-", "o", "u", "t">>
Png == <<"p", "n", "g">>

\* Names the environment may create in the snapshot directory:
\* vlcsnap-1.png, vlcsnap-1.2.png, vlcsnap-3, n.txt, .cfg
NamePool ==
    { VlcSnap \o <<"1", ".">> \o Png,
      VlcSnap \o <<"1", ".", "2", ".">> \o Png,
      VlcSnap \o <<"3">>,
      <<"n", ".", "t", "x", "t">>,
      <<".", "c", "f", "g">> }

Contains(s, sub) ==
    \E i \in 0..(Len(s) - Len(sub)) : SubSeq(s, i + 1, i + Len(sub)) = sub

StartsWith(s, prefix) ==
    Len(s) >= Len(prefix) /\ SubSeq(s, 1, Len(prefix)) = prefix

\* Position of the last "." of a name, 0 when it has none.
LastDot(name) ==
    LET dots == {i \in 1..Len(name) : name[i] = "."}
    IN  IF dots = {} THEN 0 ELSE CHOOSE i \in dots : \A j \in dots : j <= i

\* Path::file_stem: the name up to its last ".", the whole name when it has no
\* "." or only a leading one.
file_stem(name) ==
    IF LastDot(name) <= 1 THEN name ELSE SubSeq(name, 1, LastDot(name) - 1)

\* Path::extension().unwrap_or_default(): what follows the last ".", empty
\* when the name has no "." or only a leading one.
extension(name) ==
    IF LastDot(name) <= 1 THEN <<>>
    ELSE SubSeq(name, LastDot(name) + 1, Len(name))

\* Path::with_extension: cut the name back to its file stem, then append "."
\* and the extension unless the extension is empty.
with_extension(name, ext) ==
    file_stem(name) \o (IF ext = <<>> THEN <<>> ELSE <<".">> \o ext)

\* `orig_path.with_file_name(orig_name + "-vlc-print-out").with_extension(orig_extension)`
new_path(orig) ==
    with_extension(file_stem(orig) \o <<"-">> \o VlcPrintOut, extension(orig))

\* The entries most_recent_file keeps.
ValidFiles(es) ==
    {e \in es : e.is_file /\ ~Contains(file_stem(e.name), VlcPrintOut)}

\* `files.into_iter().max_by_key(|f| f.created)`; creation times are distinct.
Latest(fs) == CHOOSE f \in fs : \A g \in fs : g.created <= f.created

\* most_recent_file: the name selected, <<>> for "no valid files in directory".
most_recent_file(es) ==
    IF ValidFiles(es) = {} THEN <<>> ELSE Latest(ValidFiles(es)).name

\* ------------------------------------------ go(): runs on a shared directory
InitDir ==
    /\ dir = {}
    /\ clock = 0
    /\ entries = {}
    /\ orig_path = <<>>
    /\ written = {}
    /\ run_result = "none"
    /\ ImgIdle
    /\ ChanIdle

Names(es) == {e.name : e \in es}

\* The environment (VLC, the user) creates a file or a directory.
CreateEntry ==
    /\ clock < MaxClock
    /\ \E n \in NamePool \ Names(dir) : \E f \in BOOLEAN :
          dir' = dir \cup {[name |-> n, created |-> clock, is_file |-> f]}
    /\ clock' = clock + 1
    /\ UNCHANGED <<entries, orig_path, written, run_result, imgVars, chanVars>>

\* A run that finds no valid file: most_recent_file returns Err.
RunNoFile ==
    /\ most_recent_file(dir) = <<>>
    /\ entries' = dir
    /\ orig_path' = <<>>
    /\ run_result' = "no valid files"
    /\ UNCHANGED <<dir, clock, written, imgVars, chanVars>>

\* A run that selects a file and fails before `cropped_img.save` (the file does
\* not decode, auto_crop panics) or in it: nothing is written.
RunFail ==
    /\ most_recent_file(dir) # <<>>
    /\ entries' = dir
    /\ orig_path' = most_recent_file(dir)
    /\ run_result' = "failed"
    /\ UNCHANGED <<dir, clock, written, imgVars, chanVars>>

\* A run that selects a file and saves the result to new_path: a new file gets
\* the current creation time, an existing file is overwritten in place.
RunSave ==
    /\ most_recent_file(dir) # <<>>
    /\ LET orig == most_recent_file(dir)
           out == new_path(orig)
       IN  /\ \A e \in dir : e.name = out => e.is_file
           /\ out \in Names(dir) \/ clock < MaxClock
           /\ entries' = dir
           /\ orig_path' = orig
           /\ written' = written \cup {out}
           /\ IF out \in Names(dir)
              THEN UNCHANGED <<dir, clock>>
              ELSE /\ dir' = dir \cup {[name |-> out, created |-> clock,
                                        is_file |-> TRUE]}
                   /\ clock' = clock + 1
    /\ run_result' = "saved"
    /\ UNCHANGED <<imgVars, chanVars>>

NextDir == CreateEntry \/ RunNoFile \/ RunFail \/ RunSave

SpecDir == InitDir /\ [][NextDir]_vars

\* ------------------------------------------------------ what the claims say
\* 0-based column and row indices that hold a non-background pixel.
ContentCols(image) ==
    {c - 1 : c \in {c \in 1..image.width :
        \E r \in 1..image.height : ~IsBlack(image.rows[r][c])}}

ContentRowIdx(image) ==
    {r - 1 : r \in {r \in 1..image.height :
        \E c \in 1..image.width : ~IsBlack(image.rows[r][c])}}

SetMin(S) == CHOOSE x \in S : \A y \in S : x <= y
SetMax(S) == CHOOSE x \in S : \A y \in S : x >= y

AllBackground(image) == ContentCols(image) = {}
HasContent(image) == ContentCols(image) # {}

\* The minimal bounding box of the non-background pixels, as crop arguments.
BoundingBox(image) ==
    LET cs == ContentCols(image)
        rs == ContentRowIdx(image)
    IN  [x |-> SetMin(cs), y |-> SetMin(rs),
         width |-> U32(SetMax(cs) + 1 - SetMin(cs)),
         height |-> U32(SetMax(rs) + 1 - SetMin(rs))]

\* auto_crop has run to its end (the crop call or a panic on the way to it).
Scanned == pc \in {"cropped", "brightened", "panicked"}
\* auto_crop handed a rectangle to imageops::crop.
HandedRect == pc \in {"cropped", "brightened"}

\* C1: for an image whose every pixel has luma < 16 the border scan reports
\* NoContentFound: it neither runs into the subtractions nor hands a rectangle
\* to the crop step.
C1_AllBackgroundIsNoContent ==
    (pc # "decoded" /\ AllBackground(img)) => pc = "no_content_found"

\* C2: for an image with a non-background pixel the rectangle auto_crop
\* computes is the minimal bounding box of the non-background pixels.
C2_RectIsBoundingBox ==
    (Scanned /\ HasContent(img)) =>
        (HandedRect /\ crop_args = BoundingBox(img))

\* C3: for an image with a non-background pixel the scan ends with
\* left_crop <= right_crop <= width and top_crop <= bot_crop <= height, so
\* neither subtraction underflows.
C3_BoundsOrdered ==
    (Scanned /\ HasContent(img)) =>
        /\ crop_bounds.left_crop <= crop_bounds.right_crop
        /\ crop_bounds.right_crop <= img.width
        /\ crop_bounds.top_crop <= crop_bounds.bot_crop
        /\ crop_bounds.bot_crop <= img.height
        /\ ~SubOverflows(crop_bounds)

\* A background border of b pixels on all four sides around a rectangle of
\* non-background pixels.
Bordered(image, b) ==
    /\ b >= 1 /\ image.width > 2 * b /\ image.height > 2 * b
    /\ \A r \in 1..image.height : \A c \in 1..image.width :
          IsBlack(image.rows[r][c]) <=>
              (r <= b \/ r > image.height - b \/ c <= b \/ c > image.width - b)

\* C4: a border of b background pixels around a non-background rectangle
\* yields left = b, top = b, width = W - 2b, height = H - 2b.
C4_UniformBorder ==
    \A b \in 1..MaxPixels :
        (Scanned /\ Bordered(img, b)) =>
            /\ HandedRect
            /\ crop_args = [x |-> b, y |-> b,
                            width |-> U32(img.width - 2 * b),
                            height |-> U32(img.height - 2 * b)]

\* The content rows form exactly two bands with background rows between them.
TwoBands(image) ==
    LET rs == ContentRowIdx(image)
        gaps == {r \in rs : r + 1 \notin rs /\ r # SetMax(rs)}
    IN  rs # {} /\ Cardinality(gaps) = 1

\* C5: two bands of content rows separated by background rows yield top = first
\* row of the first band, top + height = last row of the second band + 1, and
\* left / left + width = the extremes over every content row of both bands.
C5_TwoBandsUnion ==
    (Scanned /\ TwoBands(img)) =>
        (HandedRect /\ crop_args = BoundingBox(img))

\* Number of leading background pixels of a row.
LeadingBlack(row) ==
    Cardinality({i \in 1..Len(row) : \A j \in 1..i : IsBlack(row[j])})

RowAllBlack(row) == \A i \in 1..Len(row) : IsBlack(row[i])

ScaleZeroIsIdentity == \A c \in 0..U8Max : scale(c, Factor(0)) = c

\* C6: with luma offset 0 the brightening stage leaves the cropped buffer
\* unchanged (the pipeline skips auto_brighten), and auto_brighten with offset
\* 0 maps every channel value to itself.
C6_ZeroOffsetUnchanged ==
    /\ (pc = "brightened" /\ luma = 0) => cropped_img = ToImage(img, crop_args)
    /\ ScaleZeroIsIdentity

C6_Witness ==
    /\ pc = "brightened" /\ luma = 0
    /\ cropped_img.width >= 1 /\ cropped_img.height >= 1

\* What auto_brighten makes of channel value c under offset l, tabulated once.
Remapped == [l \in 0..U8Max |-> [c \in 0..U8Max |-> scale(c, Factor(l))]]

\* C7: the remap is monotonic in the offset: for a channel below 255 and
\* offsets offset < o2, the value under offset is <= the value under o2.
C7_MonotonicInOffset ==
    (scaled # -1 /\ channel < U8Max) =>
        \A o2 \in (offset + 1)..U8Max : scaled <= Remapped[o2][channel]

\* The closure has lifted a channel and a larger offset lifts it strictly more.
C7_Witness ==
    /\ scaled # -1 /\ channel < U8Max /\ offset < U8Max
    /\ scaled > channel
    /\ scaled < Remapped[U8Max][channel]

\* The regular files of a listing whose name starts with "vlcsnap-".
Snapshots(es) == {e \in es : e.is_file /\ StartsWith(e.name, VlcSnap)}

\* C8: the file a run writes is never selected as the source by a later run.
C8_OutputNeverSelected == orig_path \notin written

\* C9: the file a run selects is the most recently created regular file whose
\* name starts with "vlcsnap-"; a file with another name is never selected.
C9_SelectsLatestSnapshot ==
    orig_path # <<>> =>
        /\ StartsWith(orig_path, VlcSnap)
        /\ orig_path = Latest(Snapshots(entries)).name

====
